---- MODULE Spec2Model ----
(***************************************************************************)
(* Virtual Businessman (src/main.py): a LangGraph pipeline of nine nodes   *)
(* that asks for two dates, detects the location, fetches the weather,     *)
(* the USD exchange rates and the gold price of both dates, and compiles   *)
(* a text report.                                                          *)
(*                                                                         *)
(* Values.  Python/JSON values are tagged records so that values of        *)
(* different types can be compared:                                        *)
(*   [num |-> n]  a number      [str |-> s]  a string                      *)
(*   [null |-> TRUE]  None/null [obj |-> r]  a JSON object (dict)          *)
(* Numbers are integers; a rate such as 0.90 is written in hundredths.     *)
(* A date text is [y, m, d, pad]: the fields as typed and whether month    *)
(* and day are zero-padded ("2024-03-01" against "2024-3-1").              *)
(*                                                                         *)
(* HTTP.  Every requests.get is answered by the environment with one of    *)
(*   [exc |-> TRUE]                 the call raises (network, timeout)     *)
(*   [status |-> s, body |-> b]     a response; b is the JSON value of     *)
(*                                  .json(), or Invalid when .json() raises*)
(***************************************************************************)
EXTENDS Integers, Sequences, FiniteSets, TLC

VARIABLES
    state,      \* the FinancialState channels that have been written
    pc,         \* the node the graph runs next ("END" when finished)
    trace,      \* the nodes executed so far, in order
    lastHttp,   \* the requests issued by the node executed last, with answers
    geoFailed,  \* history: the geolocation request failed
    outage,     \* history: every HTTP attempt of the run so far has failed
    clock,      \* wall clock in seconds (datetime.now())
    compiled,   \* history of compile_output calls: inputs, clock, output
    deltas,     \* history of pct calls: old, new, result
    console     \* what display_results printed

vars == <<state, pc, trace, lastHttp, geoFailed, outage, clock, compiled, deltas, console>>

----------------------------------------------------------------------------
(* Bounds *)

\* the wall clock takes the values 0..MaxClock
MaxClock == 1

\* compile_output is invoked at most MaxCompiles times in SpecCompile
MaxCompiles == 2

\* pct is called at most MaxCalls times in SpecDelta
MaxCalls == 1

----------------------------------------------------------------------------
(* Python and JSON values *)

Num(n) == [num |-> n]
Str(s) == [str |-> s]
Null == [null |-> TRUE]
Obj(r) == [obj |-> r]
Invalid == [invalid |-> TRUE]

IsNum(v) == DOMAIN v = {"num"}
IsStr(v) == DOMAIN v = {"str"}
IsObj(v) == DOMAIN v = {"obj"}

\* the sentinel "N/A"
NA == Str("N/A")
Unknown == Str("Unknown")

\* the empty dict {}
EmptyDict == << >>

\* dict.get(key, default) on a Python dict d (a record)
Get(d, key, default) == IF key \in DOMAIN d THEN d[key] ELSE default

\* the update a node returns is merged into the state, key by key
Merge(s, upd) ==
    [k \in (DOMAIN s) \cup (DOMAIN upd) |-> IF k \in DOMAIN upd THEN upd[k] ELSE s[k]]

\* str(v) as an f-string renders it
Render(v) ==
    IF IsNum(v) THEN ToString(v.num)
    ELSE IF IsStr(v) THEN v.str
    ELSE IF v = Null THEN "None"
    ELSE "{...}"

----------------------------------------------------------------------------
(* HTTP answers *)

Exc == [exc |-> TRUE]
Resp(status, body) == [status |-> status, body |-> body]
Raises(r) == "exc" \in DOMAIN r

\* a non-200 answer; its body is never read
Http404 == Resp(404, Null)

\* the attempt failed: requests.get raised (network error, timeout), the
\* status is not 200, or response.json() raised
Failed(r) == Raises(r) \/ r.status # 200 \/ r.body = Invalid

\* response.json() followed by data.get(key, {}): the nested object, or a
\* raise when .json() raises or data is not a dict
JsonGetRaises(r, key) ==
    \/ ~IsObj(r.body)
    \/ key \in DOMAIN r.body.obj /\ ~IsObj(r.body.obj[key])

JsonGet(r, key) == IF key \in DOMAIN r.body.obj THEN r.body.obj[key].obj ELSE EmptyDict

----------------------------------------------------------------------------
(* Dates *)

IsLeap(y) == (y % 4 = 0 /\ y % 100 # 0) \/ y % 400 = 0

DaysInMonth(y, m) ==
    IF m = 2 THEN (IF IsLeap(y) THEN 29 ELSE 28)
    ELSE IF m \in {4, 6, 9, 11} THEN 30 ELSE 31

\* datetime.strptime(text, "%Y-%m-%d") raises ValueError
StrptimeRaises(text) ==
    ~(text.m \in 1..12 /\ text.d \in 1..DaysInMonth(text.y, text.m))

\* datetime.strptime(text, "%Y-%m-%d"): padded and unpadded fields both parse
Strptime(text) == [year |-> text.y, month |-> text.m, day |-> text.d]

\* dt.strftime("%Y-%m-%d"): always zero-padded
Strftime(dt) == [y |-> dt.year, m |-> dt.month, d |-> dt.day, pad |-> TRUE]

Pad2(n, pad) == IF pad /\ n < 10 THEN "0" \o ToString(n) ELSE ToString(n)

\* the characters of a date text
DateStr(text) ==
    ToString(text.y) \o "-" \o Pad2(text.m, text.pad) \o "-" \o Pad2(text.d, text.pad)

----------------------------------------------------------------------------
(* Endpoints *)

PrimaryHost == "cdn.jsdelivr.net"
MirrorHost == "raw.githubusercontent.com"
LocationHost == "ip-api.com"
WeatherHost == "api.open-meteo.com"

PrimaryUrl(date, base) ==
    "https://" \o PrimaryHost \o "/npm/@fawazahmed0/currency-api@" \o DateStr(date)
        \o "/v1/currencies/" \o base \o ".json"

MirrorUrl(date, base) ==
    "https://" \o MirrorHost \o "/fawazahmed0/currency-api/1/" \o DateStr(date)
        \o "/currencies/" \o base \o ".json"

LocationUrl == "http://" \o LocationHost \o "/json/"

WeatherUrl(lat, lon) ==
    "https://" \o WeatherHost \o "/v1/forecast?latitude=" \o Render(lat)
        \o "&longitude=" \o Render(lon) \o "&current=temperature_2m&timezone=auto"

\* one requests.get(url, timeout=10) and the environment's answer to it
Req(host, url, r) == [host |-> host, url |-> url, resp |-> r]

----------------------------------------------------------------------------
(* Rate Source Client *)

\* mutant: the default fallback carries None instead of the sentinel
DefaultRates_None == [EUR |-> Null, GBP |-> Null, JPY |-> Null]

DefaultRates == [EUR |-> NA, GBP |-> NA, JPY |-> NA]

\* mutant: GBP is read from the key eur
ParseRates_swapped(r) ==
    LET usd_rates == JsonGet(r, "usd")
    IN  [EUR |-> Get(usd_rates, "eur", NA),
         GBP |-> Get(usd_rates, "eur", NA),
         JPY |-> Get(usd_rates, "jpy", NA)]

\* the parse rule applied to a 200 answer whose JSON is an object
ParseRates(r) ==
    LET usd_rates == JsonGet(r, "usd")
    IN  [EUR |-> Get(usd_rates, "eur", NA),
         GBP |-> Get(usd_rates, "gbp", NA),
         JPY |-> Get(usd_rates, "jpy", NA)]

\* mutant: the fallback request goes to the primary endpoint again
_fetch_exchange_for_date_retry(date, answers) ==
    LET r1 == answers[1]
        r2 == answers[2]
        q1 == Req(PrimaryHost, PrimaryUrl(date, "usd"), r1)
        q2 == Req(PrimaryHost, PrimaryUrl(date, "usd"), r2)
        default == [exchange_rates |-> [EUR |-> NA, GBP |-> NA, JPY |-> NA]]
    IN  IF Raises(r1) THEN [ret |-> default, http |-> <<q1>>]
        ELSE IF r1.status = 200 THEN
            IF JsonGetRaises(r1, "usd") THEN [ret |-> default, http |-> <<q1>>]
            ELSE [ret |-> [exchange_rates |-> [EUR |-> Get(JsonGet(r1, "usd"), "eur", NA),
                                          GBP |-> Get(JsonGet(r1, "usd"), "gbp", NA),
                                          JPY |-> Get(JsonGet(r1, "usd"), "jpy", NA)]], http |-> <<q1>>]
        ELSE IF Raises(r2) THEN [ret |-> default, http |-> <<q1, q2>>]
        ELSE IF r2.status = 200 THEN
            IF JsonGetRaises(r2, "usd") THEN [ret |-> default, http |-> <<q1, q2>>]
            ELSE [ret |-> [exchange_rates |-> [EUR |-> Get(JsonGet(r2, "usd"), "eur", NA),
                                          GBP |-> Get(JsonGet(r2, "usd"), "gbp", NA),
                                          JPY |-> Get(JsonGet(r2, "usd"), "jpy", NA)]], http |-> <<q1, q2>>]
        ELSE [ret |-> default, http |-> <<q1, q2>>]

\* answers[i] is the environment's answer to the i-th request of the call.
\* The result carries the returned dict and the requests that were issued.
_fetch_exchange_for_date(date, answers) ==
    LET r1 == answers[1]
        r2 == answers[2]
        q1 == Req(PrimaryHost, PrimaryUrl(date, "usd"), r1)
        q2 == Req(MirrorHost, MirrorUrl(date, "usd"), r2)
        default == [exchange_rates |-> DefaultRates]
    IN  IF Raises(r1) THEN [ret |-> default, http |-> <<q1>>]
        ELSE IF r1.status = 200 THEN
            IF JsonGetRaises(r1, "usd") THEN [ret |-> default, http |-> <<q1>>]
            ELSE [ret |-> [exchange_rates |-> ParseRates(r1)], http |-> <<q1>>]
        ELSE IF Raises(r2) THEN [ret |-> default, http |-> <<q1, q2>>]
        ELSE IF r2.status = 200 THEN
            IF JsonGetRaises(r2, "usd") THEN [ret |-> default, http |-> <<q1, q2>>]
            ELSE [ret |-> [exchange_rates |-> ParseRates(r2)], http |-> <<q1, q2>>]
        ELSE [ret |-> default, http |-> <<q1, q2>>]

----------------------------------------------------------------------------
(* Gold Price Source Client *)

\* mutant: the final fallback carries None instead of the sentinel
DefaultGold_None == [price_per_ounce |-> Null, currency |-> Str("USD")]

DefaultGold == [price_per_ounce |-> NA, currency |-> Str("USD")]

\* the price extracted from a 200 answer whose JSON is an object
GoldPrice(r) == Get(JsonGet(r, "xau"), "usd", NA)

\* mutant: the price is read with xau_rates["usd"], a missing key raises
GoldAttempt_KeyError(r) ==
    IF Raises(r) THEN "raise"
    ELSE IF r.status = 200 THEN
        IF JsonGetRaises(r, "xau") THEN "raise"
        ELSE IF GoldPrice(r) # NA THEN "found" ELSE "raise"
    ELSE "next"

\* what one attempt does with its answer: "raise" (an exception leaves the
\* try block), "found" (a price other than "N/A": return it), "next"
GoldAttempt(r) ==
    IF Raises(r) THEN "raise"
    ELSE IF r.status = 200 THEN
        IF JsonGetRaises(r, "xau") THEN "raise"
        ELSE IF GoldPrice(r) # NA THEN "found" ELSE "next"
    ELSE "next"

\* the quote returned for a price found on the requested date
PlainQuote(r) == [price_per_ounce |-> GoldPrice(r), currency |-> Str("USD")]

\* mutant: the quote of the date-shift attempt carries no note
NotedQuote_plain(r) == [price_per_ounce |-> GoldPrice(r), currency |-> Str("USD")]

\* the quote returned for a price found by the date-shift attempt
NotedQuote(r) == [price_per_ounce |-> GoldPrice(r), currency |-> Str("USD"),
                  note |-> Str("Nearest available date")]

\* mutant: the first of a month is shifted to the last day of the month before
PrevDate_rollback(date) ==
    LET date_obj == Strptime(date)
        y == IF date_obj.month = 1 THEN date_obj.year - 1 ELSE date_obj.year
        m == IF date_obj.month = 1 THEN 12 ELSE date_obj.month - 1
    IN  Strftime(IF date_obj.day = 1
                 THEN [year |-> y, month |-> m, day |-> DaysInMonth(y, m)]
                 ELSE [date_obj EXCEPT !.day = date_obj.day - 1])

\* the date of the third attempt
PrevDate(date) ==
    LET date_obj == Strptime(date)
    IN  Strftime(IF date_obj.day = 1
                 THEN [date_obj EXCEPT !.day = 1]
                 ELSE [date_obj EXCEPT !.day = date_obj.day - 1])

\* mutant: the chain goes on to the mirror although the primary found a price
_fetch_gold_for_date_no_stop(date, answers) ==
    LET r1 == answers[1]
        r2 == answers[2]
        r3 == answers[3]
        q1 == Req(PrimaryHost, PrimaryUrl(date, "xau"), r1)
        q2 == Req(MirrorHost, MirrorUrl(date, "xau"), r2)
        q3 == Req(PrimaryHost, PrimaryUrl(PrevDate(date), "xau"), r3)
        default == [gold_price |-> [price_per_ounce |-> NA, currency |-> Str("USD")]]
    IN  IF GoldAttempt(r1) = "raise" THEN [ret |-> default, http |-> <<q1>>]
        ELSE IF GoldAttempt(r2) = "raise" THEN [ret |-> default, http |-> <<q1, q2>>]
        ELSE IF GoldAttempt(r2) = "found"
            THEN [ret |-> [gold_price |-> PlainQuote(r2)], http |-> <<q1, q2>>]
        ELSE IF GoldAttempt(r1) = "found"
            THEN [ret |-> [gold_price |-> PlainQuote(r1)], http |-> <<q1, q2>>]
        ELSE IF StrptimeRaises(date) THEN [ret |-> default, http |-> <<q1, q2>>]
        ELSE IF GoldAttempt(r3) = "found"
            THEN [ret |-> [gold_price |-> NotedQuote(r3)], http |-> <<q1, q2, q3>>]
        ELSE [ret |-> default, http |-> <<q1, q2, q3>>]

_fetch_gold_for_date(date, answers) ==
    LET r1 == answers[1]
        r2 == answers[2]
        r3 == answers[3]
        q1 == Req(PrimaryHost, PrimaryUrl(date, "xau"), r1)
        q2 == Req(MirrorHost, MirrorUrl(date, "xau"), r2)
        q3 == Req(PrimaryHost, PrimaryUrl(PrevDate(date), "xau"), r3)
        default == [gold_price |-> DefaultGold]
    IN  IF GoldAttempt(r1) = "raise" THEN [ret |-> default, http |-> <<q1>>]
        ELSE IF GoldAttempt(r1) = "found"
            THEN [ret |-> [gold_price |-> PlainQuote(r1)], http |-> <<q1>>]
        ELSE IF GoldAttempt(r2) = "raise" THEN [ret |-> default, http |-> <<q1, q2>>]
        ELSE IF GoldAttempt(r2) = "found"
            THEN [ret |-> [gold_price |-> PlainQuote(r2)], http |-> <<q1, q2>>]
        ELSE IF StrptimeRaises(date) THEN [ret |-> default, http |-> <<q1, q2>>]
        ELSE IF GoldAttempt(r3) = "found"
            THEN [ret |-> [gold_price |-> NotedQuote(r3)], http |-> <<q1, q2, q3>>]
        ELSE [ret |-> default, http |-> <<q1, q2, q3>>]

----------------------------------------------------------------------------
(* Geolocation Client and Weather Client *)

\* mutant: the default location carries the coordinates 0, 0
DefaultLocation_zero == [city |-> Unknown, country |-> Unknown, lat |-> Num(0), lon |-> Num(0)]

DefaultLocation == [city |-> Unknown, country |-> Unknown, lat |-> Null, lon |-> Null]

\* mutant: a failed geolocation request is repeated once
fetch_location_retry(st, r) ==
    LET q == Req(LocationHost, LocationUrl, r)
        default == [location |-> [city |-> Unknown, country |-> Unknown,
                                  lat |-> Null, lon |-> Null]]
    IN  IF Raises(r) THEN [ret |-> default, http |-> <<q, q>>]
        ELSE IF r.status = 200 THEN
            IF ~IsObj(r.body) THEN [ret |-> default, http |-> <<q, q>>]
            ELSE LET data == r.body.obj
                 IN  [ret |-> [location |-> [city |-> Get(data, "city", Unknown),
                                             country |-> Get(data, "country", Unknown),
                                             lat |-> Get(data, "lat", Null),
                                             lon |-> Get(data, "lon", Null)]],
                      http |-> <<q>>]
        ELSE [ret |-> default, http |-> <<q, q>>]

fetch_location(st, r) ==
    LET q == Req(LocationHost, LocationUrl, r)
        default == [location |-> DefaultLocation]
    IN  IF Raises(r) THEN [ret |-> default, http |-> <<q>>]
        ELSE IF r.status = 200 THEN
            IF ~IsObj(r.body) THEN [ret |-> default, http |-> <<q>>]
            ELSE LET data == r.body.obj
                 IN  [ret |-> [location |-> [city |-> Get(data, "city", Unknown),
                                             country |-> Get(data, "country", Unknown),
                                             lat |-> Get(data, "lat", Null),
                                             lon |-> Get(data, "lon", Null)]],
                      http |-> <<q>>]
        ELSE [ret |-> default, http |-> <<q>>]

DefaultWeather == [temperature_c |-> NA]

\* mutant: the short-circuit is taken only when both coordinates are absent
MissingCoordinates_both(lat, lon) == lat = Null /\ lon = Null

\* the precondition check of fetch_weather
MissingCoordinates(lat, lon) == lat = Null \/ lon = Null

fetch_weather(st, r) ==
    LET loc == Get(st, "location", EmptyDict)
        lat == Get(loc, "lat", Null)
        lon == Get(loc, "lon", Null)
        q == Req(WeatherHost, WeatherUrl(lat, lon), r)
        default == [weather |-> DefaultWeather]
    IN  IF MissingCoordinates(lat, lon) THEN [ret |-> default, http |-> << >>]
        ELSE IF Raises(r) THEN [ret |-> default, http |-> <<q>>]
        ELSE IF r.status = 200 THEN
            IF JsonGetRaises(r, "current") THEN [ret |-> default, http |-> <<q>>]
            ELSE [ret |-> [weather |-> [temperature_c |->
                              Get(JsonGet(r, "current"), "temperature_2m", NA)]],
                  http |-> <<q>>]
        ELSE [ret |-> default, http |-> <<q>>]

----------------------------------------------------------------------------
(* Delta Calculator *)

\* the numerals float() accepts are searched among 0..MaxNumeral
MaxNumeral == 100

\* float(v) raises: v is neither a number nor a numeral string
FloatRaises(v) ==
    ~(IsNum(v) \/ (IsStr(v) /\ \E n \in 0..MaxNumeral : ToString(n) = v.str))

Float(v) ==
    IF IsNum(v) THEN v.num ELSE CHOOSE n \in 0..MaxNumeral : ToString(n) = v.str

Abs(n) == IF n < 0 THEN -n ELSE n

\* mutant: the third decimal is cut off instead of rounded
Format2f_truncate(n, d) ==
    LET an == Abs(n) * 100
        ad == Abs(d)
        cents == an \div ad
        negative == n # 0 /\ ((n < 0) # (d < 0))
    IN  (IF negative THEN "-" ELSE "") \o ToString(cents \div 100) \o "."
            \o Pad2(cents % 100, TRUE)

\* f"{n/d:.2f}": the quotient rounded to two decimals (ties to even), the
\* sign kept when a negative quotient rounds to zero
Format2f(n, d) ==
    LET an == Abs(n) * 100
        ad == Abs(d)
        q == an \div ad
        rem == an % ad
        cents == IF 2 * rem > ad \/ (2 * rem = ad /\ q % 2 = 1) THEN q + 1 ELSE q
        negative == n # 0 /\ ((n < 0) # (d < 0))
    IN  (IF negative THEN "-" ELSE "") \o ToString(cents \div 100) \o "."
            \o Pad2(cents % 100, TRUE)

\* mutant: a zero old value is reported as no change
pct_zero_no_change(old, new) ==
    IF old \in {NA, Null} \/ new \in {NA, Null} THEN "N/A"
    ELSE IF FloatRaises(old) \/ FloatRaises(new) THEN "N/A"
    ELSE LET old_v == Float(old)
             new_v == Float(new)
         IN  IF old_v = 0 THEN "0.00%"
             ELSE Format2f((new_v - old_v) * 100, old_v) \o "%"

pct(old, new) ==
    IF old \in {NA, Null} \/ new \in {NA, Null} THEN "N/A"
    ELSE IF FloatRaises(old) \/ FloatRaises(new) THEN "N/A"
    ELSE LET old_v == Float(old)
             new_v == Float(new)
         IN  IF old_v = 0 THEN "N/A"
             ELSE Format2f((new_v - old_v) * 100, old_v) \o "%"

\* one call of pct, as the history deltas records it
PctCall(old, new) == [old |-> old, new |-> new, result |-> pct(old, new)]

----------------------------------------------------------------------------
(* Report Compiler *)

\* datetime.now().strftime("%Y-%m-%d %H:%M:%S") at second now of the day
NowStr(now) == "2024-03-15 00:00:" \o Pad2(now, TRUE)

\* truthiness of gold.get('note')
HasNote(gold) ==
    "note" \in DOMAIN gold /\ gold.note \notin {Null, Str("")}

GoldNote(gold) == IF HasNote(gold) THEN " (" \o Render(gold.note) \o ")" ELSE ""

\* the four pct calls of compile_output, in the order EUR, GBP, JPY, gold
DeltaCalls(st) ==
    LET rates1 == Get(st, "exchange_rates1", EmptyDict)
        rates2 == Get(st, "exchange_rates2", EmptyDict)
        gold1 == Get(st, "gold_price1", EmptyDict)
        gold2 == Get(st, "gold_price2", EmptyDict)
    IN  << PctCall(Get(rates1, "EUR", Null), Get(rates2, "EUR", Null)),
           PctCall(Get(rates1, "GBP", Null), Get(rates2, "GBP", Null)),
           PctCall(Get(rates1, "JPY", Null), Get(rates2, "JPY", Null)),
           PctCall(Get(gold1, "price_per_ounce", Null), Get(gold2, "price_per_ounce", Null)) >>

\* the report text, line by line; the fixed banner lines are left out
ReportLines(st, now) ==
    LET date1 == DateStr(st.date1)
        date2 == DateStr(st.date2)
        rates1 == Get(st, "exchange_rates1", EmptyDict)
        rates2 == Get(st, "exchange_rates2", EmptyDict)
        gold1 == Get(st, "gold_price1", EmptyDict)
        gold2 == Get(st, "gold_price2", EmptyDict)
        loc == Get(st, "location", EmptyDict)
        weather == Get(st, "weather", EmptyDict)
        changes == DeltaCalls(st)
        rateLine(date, rates) ==
            "  Date " \o date \o "  | EUR: " \o Render(Get(rates, "EUR", NA))
                \o "  GBP: " \o Render(Get(rates, "GBP", NA))
                \o "  JPY: " \o Render(Get(rates, "JPY", NA))
        goldLine(date, gold) ==
            "  Date " \o date \o ": $" \o Render(Get(gold, "price_per_ounce", NA))
                \o " " \o Render(Get(gold, "currency", Str("USD"))) \o GoldNote(gold)
    IN  << "Dates: " \o date1 \o " -> " \o date2,
             "  City, Country: " \o Render(Get(loc, "city", Unknown)) \o ", "
                 \o Render(Get(loc, "country", Unknown)),
             "  Live Temperature: " \o Render(Get(weather, "temperature_c", NA)) \o " C",
             "  Now: " \o NowStr(now),
             rateLine(date1, rates1),
             rateLine(date2, rates2),
             "  Change (%)   | EUR: " \o changes[1].result
                 \o "  GBP: " \o changes[2].result
                 \o "  JPY: " \o changes[3].result,
             goldLine(date1, gold1),
             goldLine(date2, gold2),
             "  Change (%): " \o changes[4].result >>

\* mutant: the report is appended to the output channel instead of replacing it
compile_output_appending(st, now) ==
    [output |-> Get(st, "output", << >>) \o ReportLines(st, now)]

compile_output(st, now) == [output |-> ReportLines(st, now)]

\* the input entities of the Report Compiler: every channel but output
CompileInputs(st) == [k \in (DOMAIN st) \ {"output"} |-> st[k]]

----------------------------------------------------------------------------
(* The node functions: each maps the state and the environment's inputs to *)
(* the update it returns (ret) and the requests it issued (http)           *)

\* datetime.now() falls on this day in every run
Today == [year |-> 2024, month |-> 3, day |-> 15]

get_user_date(in1, in2) ==
    [ret |-> [date1 |-> IF StrptimeRaises(in1) THEN Strftime(Today) ELSE in1,
              date2 |-> IF StrptimeRaises(in2) THEN Strftime(Today) ELSE in2],
     http |-> << >>]

fetch_exchange_1(st, answers) ==
    LET res == _fetch_exchange_for_date(st.date1, answers)
    IN  [ret |-> [exchange_rates1 |-> Get(res.ret, "exchange_rates", EmptyDict)],
         http |-> res.http]

fetch_exchange_2(st, answers) ==
    LET res == _fetch_exchange_for_date(st.date2, answers)
    IN  [ret |-> [exchange_rates2 |-> Get(res.ret, "exchange_rates", EmptyDict)],
         http |-> res.http]

fetch_gold_1(st, answers) ==
    LET res == _fetch_gold_for_date(st.date1, answers)
    IN  [ret |-> [gold_price1 |-> Get(res.ret, "gold_price", EmptyDict)],
         http |-> res.http]

\* mutant: the second gold node reads the first date
fetch_gold_2_date1(st, answers) ==
    LET res == _fetch_gold_for_date(st.date1, answers)
    IN  [ret |-> [gold_price2 |-> Get(res.ret, "gold_price", EmptyDict)],
         http |-> res.http]

fetch_gold_2(st, answers) ==
    LET res == _fetch_gold_for_date(st.date2, answers)
    IN  [ret |-> [gold_price2 |-> Get(res.ret, "gold_price", EmptyDict)],
         http |-> res.http]

\* print(state.get("output", "No output available."))
display_results(st) == Get(st, "output", <<"No output available.">>)

----------------------------------------------------------------------------
(* The graph *)

Nodes == {"get_date", "fetch_location", "fetch_weather", "fetch_exchange_1",
          "fetch_exchange_2", "fetch_gold_1", "fetch_gold_2", "compile", "display"}

EntryPoint == "get_date"

\* mutant: the weather node is wired before the location node
Edge_weather_first ==
    [get_date |-> "fetch_weather",
     fetch_weather |-> "fetch_location",
     fetch_location |-> "fetch_exchange_1",
     fetch_exchange_1 |-> "fetch_exchange_2",
     fetch_exchange_2 |-> "fetch_gold_1",
     fetch_gold_1 |-> "fetch_gold_2",
     fetch_gold_2 |-> "compile",
     compile |-> "display",
     display |-> "END"]

Edge ==
    [get_date |-> "fetch_location",
     fetch_location |-> "fetch_weather",
     fetch_weather |-> "fetch_exchange_1",
     fetch_exchange_1 |-> "fetch_exchange_2",
     fetch_exchange_2 |-> "fetch_gold_1",
     fetch_gold_1 |-> "fetch_gold_2",
     fetch_gold_2 |-> "compile",
     compile |-> "display",
     display |-> "END"]

----------------------------------------------------------------------------
(* The environment: what the user types and what the servers answer *)

D(y, m, d, pad) == [y |-> y, m |-> m, d |-> d, pad |-> pad]

\* "2024-03-15", "2024-03-01" and the invalid "2024-02-30"
UserInputs == {D(2024, 3, 15, TRUE), D(2024, 3, 1, TRUE), D(2024, 2, 30, TRUE)}

Answers(bodies) == {Exc, Http404, Resp(200, Invalid)} \cup {Resp(200, b) : b \in bodies}

RateBodies ==
    {Obj(EmptyDict),
     Obj([usd |-> Null]),
     Obj([usd |-> Obj([eur |-> Num(90), gbp |-> Num(79), jpy |-> Num(15000)])]),
     Obj([usd |-> Obj([eur |-> Num(95), gbp |-> Num(0)])])}

\* the rate endpoints also answer with a non-200 that carries a JSON body
RateAnswers ==
    Answers(RateBodies) \cup
        {Resp(503, Obj([usd |-> Obj([eur |-> Num(95), gbp |-> Num(79), jpy |-> Num(15000)])]))}

GoldBodies ==
    {Obj(EmptyDict),
     Obj([xau |-> Obj([usd |-> Num(2000)])]),
     Obj([xau |-> Obj([usd |-> Num(2100)])])}

LocationBodies ==
    {Obj(EmptyDict),
     Obj([city |-> Str("Paris"), country |-> Str("France"), lat |-> Num(48), lon |-> Num(2)]),
     Obj([city |-> Str("Paris"), country |-> Str("France"), lat |-> Num(48)]),
     Obj([city |-> Str("Paris"), lat |-> Null, lon |-> Num(2)])}

WeatherBodies ==
    {Obj(EmptyDict),
     Obj([current |-> Null]),
     Obj([current |-> Obj([temperature_2m |-> Num(21)])])}

----------------------------------------------------------------------------
(* The pipeline run *)

\* main() invokes the graph with a dict of which only the key output is a
\* channel of FinancialState
Init ==
    /\ state = [output |-> << >>]
    /\ pc = EntryPoint
    /\ trace = << >>
    /\ lastHttp = << >>
    /\ geoFailed = FALSE
    /\ outage = TRUE
    /\ clock = 0
    /\ compiled = << >>
    /\ deltas = << >>
    /\ console = << >>

\* one superstep: the node returns res, its update is merged into the state
\* and control follows the node's edge
Step(node, res) ==
    /\ state' = Merge(state, res.ret)
    /\ pc' = Edge[node]
    /\ trace' = Append(trace, node)
    /\ lastHttp' = res.http
    /\ geoFailed' = (geoFailed \/ \E i \in DOMAIN res.http :
                        res.http[i].host = LocationHost /\ Failed(res.http[i].resp))
    /\ outage' = (outage /\ \A i \in DOMAIN res.http : Failed(res.http[i].resp))

run_get_date ==
    /\ pc = "get_date"
    /\ \E in1, in2 \in UserInputs : Step("get_date", get_user_date(in1, in2))
    /\ UNCHANGED <<clock, compiled, deltas, console>>

run_fetch_location ==
    /\ pc = "fetch_location"
    /\ \E r \in Answers(LocationBodies) : Step("fetch_location", fetch_location(state, r))
    /\ UNCHANGED <<clock, compiled, deltas, console>>

run_fetch_weather ==
    /\ pc = "fetch_weather"
    /\ \E r \in Answers(WeatherBodies) : Step("fetch_weather", fetch_weather(state, r))
    /\ UNCHANGED <<clock, compiled, deltas, console>>

run_fetch_exchange_1 ==
    /\ pc = "fetch_exchange_1"
    /\ \E a \in [1..2 -> RateAnswers] :
          Step("fetch_exchange_1", fetch_exchange_1(state, a))
    /\ UNCHANGED <<clock, compiled, deltas, console>>

run_fetch_exchange_2 ==
    /\ pc = "fetch_exchange_2"
    /\ \E a \in [1..2 -> RateAnswers] :
          Step("fetch_exchange_2", fetch_exchange_2(state, a))
    /\ UNCHANGED <<clock, compiled, deltas, console>>

run_fetch_gold_1 ==
    /\ pc = "fetch_gold_1"
    /\ \E a \in [1..3 -> Answers(GoldBodies)] :
          Step("fetch_gold_1", fetch_gold_1(state, a))
    /\ UNCHANGED <<clock, compiled, deltas, console>>

run_fetch_gold_2 ==
    /\ pc = "fetch_gold_2"
    /\ \E a \in [1..3 -> Answers(GoldBodies)] :
          Step("fetch_gold_2", fetch_gold_2(state, a))
    /\ UNCHANGED <<clock, compiled, deltas, console>>

\* compile_output reads the clock at some moment now >= clock
run_compile ==
    /\ pc = "compile"
    /\ \E now \in clock..MaxClock :
          /\ Step("compile", [ret |-> compile_output(state, now), http |-> << >>])
          /\ clock' = now
          /\ compiled' = Append(compiled, [inputs |-> CompileInputs(state), now |-> now,
                                           output |-> compile_output(state, now).output])
    /\ deltas' = deltas \o DeltaCalls(state)
    /\ UNCHANGED console

run_display ==
    /\ pc = "display"
    /\ Step("display", [ret |-> EmptyDict, http |-> << >>])
    /\ console' = Append(console, display_results(state))
    /\ UNCHANGED <<clock, compiled, deltas>>

Next ==
    \/ run_get_date
    \/ run_fetch_location
    \/ run_fetch_weather
    \/ run_fetch_exchange_1
    \/ run_fetch_exchange_2
    \/ run_fetch_gold_1
    \/ run_fetch_gold_2
    \/ run_compile
    \/ run_display

Spec == Init /\ [][Next]_vars

\* one answer of each kind: an exception, a non-200, a 200 that does not
\* parse, a 200 without the expected fields, and a 200 with them
OutcomeKinds ==
    {Exc, Http404, Resp(200, Invalid), Resp(200, Obj(EmptyDict)),
     Resp(200, Obj([usd |-> Obj([eur |-> Num(90), gbp |-> Num(79), jpy |-> Num(15000)])])),
     Resp(200, Obj([xau |-> Obj([usd |-> Num(2000)])])),
     Resp(200, Obj([city |-> Str("Paris"), country |-> Str("France"),
                    lat |-> Num(48), lon |-> Num(2)])),
     Resp(200, Obj([current |-> Obj([temperature_2m |-> Num(21)])]))}

\* the requests of the node executed last were answered from OutcomeKinds,
\* and the user typed "2024-03-15" and "2024-03-01"
KindsOnly ==
    /\ \A i \in DOMAIN lastHttp : lastHttp[i].resp \in OutcomeKinds
    /\ "date1" \in DOMAIN state =>
          state.date1 = D(2024, 3, 15, TRUE) /\ state.date2 = D(2024, 3, 1, TRUE)

\* the pipeline run over the kinds of answers
NextFair ==
    \/ run_get_date /\ KindsOnly'
    \/ run_fetch_location /\ KindsOnly'
    \/ run_fetch_weather /\ KindsOnly'
    \/ run_fetch_exchange_1 /\ KindsOnly'
    \/ run_fetch_exchange_2 /\ KindsOnly'
    \/ run_fetch_gold_1 /\ KindsOnly'
    \/ run_fetch_gold_2 /\ KindsOnly'
    \/ run_compile /\ KindsOnly'
    \/ run_display /\ KindsOnly'

\* graph.invoke runs the node that is due: every handler returns (each
\* request carries timeout=10, each except clause falls through to a return)
SpecFair == Init /\ [][NextFair]_vars /\ WF_vars(NextFair)

----------------------------------------------------------------------------
(* The Report Compiler on its own: compile_output is invoked repeatedly on *)
(* one set of input entities while the clock advances                      *)

RateA == [EUR |-> Num(90), GBP |-> Num(79), JPY |-> Num(15000)]
RateB == [EUR |-> Num(95), GBP |-> Num(0), JPY |-> NA]
Quote(p) == [price_per_ounce |-> Num(p), currency |-> Str("USD")]
Noted(p) == [price_per_ounce |-> Num(p), currency |-> Str("USD"),
             note |-> Str("Nearest available date")]
Paris == [city |-> Str("Paris"), country |-> Str("France"), lat |-> Num(48), lon |-> Num(2)]

\* states the pipeline hands to the compile node
CompileStates ==
    { [date1 |-> d1, date2 |-> D(2024, 3, 15, TRUE),
       location |-> lw[1], weather |-> lw[2],
       exchange_rates1 |-> r1, exchange_rates2 |-> r2,
       gold_price1 |-> g1, gold_price2 |-> g2,
       output |-> << >>] :
        d1 \in {D(2024, 3, 1, TRUE), D(2024, 3, 15, TRUE)},
        lw \in {<<DefaultLocation, DefaultWeather>>, <<Paris, [temperature_c |-> Num(21)]>>},
        r1 \in {DefaultRates, RateA},
        r2 \in {DefaultRates, RateB},
        g1 \in {DefaultGold, Quote(2000)},
        g2 \in {DefaultGold, Quote(2100), Noted(2100)} }

InitCompile ==
    /\ state \in CompileStates
    /\ pc = "compile"
    /\ trace = << >>
    /\ lastHttp = << >>
    /\ geoFailed = FALSE
    /\ outage = FALSE
    /\ clock = 0
    /\ compiled = << >>
    /\ deltas = << >>
    /\ console = << >>

\* one more invocation of compile_output on the same input entities, at a
\* moment now >= clock
invoke_compile ==
    /\ Len(compiled) < MaxCompiles
    /\ \E now \in clock..MaxClock :
          /\ state' = Merge(state, compile_output(state, now))
          /\ clock' = now
          /\ compiled' = Append(compiled, [inputs |-> CompileInputs(state), now |-> now,
                                           output |-> compile_output(state, now).output])
    /\ deltas' = deltas \o DeltaCalls(state)
    /\ UNCHANGED <<pc, trace, lastHttp, geoFailed, outage, console>>

NextCompile == invoke_compile

SpecCompile == InitCompile /\ [][NextCompile]_vars

----------------------------------------------------------------------------
(* The Delta Calculator on its own: pct is called on a pair of scalars     *)

Scalars ==
    {NA, Null, Num(0), Str("0"), Num(50), Str("50"), Num(100), Num(110), Num(-50), Num(3),
     Str("abc"), Obj(EmptyDict)}

InitDelta ==
    /\ state = [output |-> << >>]
    /\ pc = "pct"
    /\ trace = << >>
    /\ lastHttp = << >>
    /\ geoFailed = FALSE
    /\ outage = FALSE
    /\ clock = 0
    /\ compiled = << >>
    /\ deltas = << >>
    /\ console = << >>

call_pct ==
    /\ pc = "pct"
    /\ Len(deltas) < MaxCalls
    /\ \E old, new \in Scalars : deltas' = Append(deltas, PctCall(old, new))
    /\ UNCHANGED <<state, pc, trace, lastHttp, geoFailed, outage, clock, compiled, console>>

NextDelta == call_pct

SpecDelta == InitDelta /\ [][NextDelta]_vars

----------------------------------------------------------------------------
(* The two gold nodes on their own, invoked on states that hold the dates  *)

\* "2024-03-01", "2024-3-1", "2024-03-15" and "2024-01-01": every one is
\* accepted by strptime in get_user_date and stored as typed
GoldDates == {D(2024, 3, 1, TRUE), D(2024, 3, 1, FALSE), D(2024, 3, 15, TRUE), D(2024, 1, 1, TRUE)}

InitGold ==
    /\ \E d1, d2 \in GoldDates : state = [output |-> << >>, date1 |-> d1, date2 |-> d2]
    /\ pc = "fetch_gold_1"
    /\ trace = << >>
    /\ lastHttp = << >>
    /\ geoFailed = FALSE
    /\ outage = TRUE
    /\ clock = 0
    /\ compiled = << >>
    /\ deltas = << >>
    /\ console = << >>

NextGold == run_fetch_gold_1 \/ run_fetch_gold_2

SpecGold == InitGold /\ [][NextGold]_vars

\* a behaviour is a pipeline run or a series of pct calls
InitReport == Init \/ InitDelta

NextReport == Next \/ NextDelta

SpecReport == InitReport /\ [][NextReport]_vars

TypeOK ==
    /\ pc \in Nodes \cup {"END"}
    /\ clock \in 0..MaxClock
    /\ geoFailed \in BOOLEAN
    /\ outage \in BOOLEAN

----------------------------------------------------------------------------
(* Vocabulary of the properties *)

\* the node executed last
Last == IF trace = << >> THEN "none" ELSE trace[Len(trace)]

AfterRate == Last \in {"fetch_exchange_1", "fetch_exchange_2"}
AfterGold == Last \in {"fetch_gold_1", "fetch_gold_2"}

\* the date the fetch executed last was keyed by, and what it returned
LastDate == IF Last \in {"fetch_exchange_1", "fetch_gold_1"} THEN state.date1 ELSE state.date2

LastRates == IF Last = "fetch_exchange_1" THEN state.exchange_rates1 ELSE state.exchange_rates2

LastGold == IF Last = "fetch_gold_1" THEN state.gold_price1 ELSE state.gold_price2

\* the answer to the i-th request of the node executed last
Answer(i) == lastHttp[i].resp

\* a 200 answer whose JSON is an object
Parsed(r) == ~Raises(r) /\ r.status = 200 /\ IsObj(r.body)

\* a parsed answer that lacks usd, or one of eur, gbp, jpy in it
RateFieldMissing(r) ==
    /\ Parsed(r)
    /\ \/ "usd" \notin DOMAIN r.body.obj
       \/ /\ IsObj(r.body.obj.usd)
          /\ {"eur", "gbp", "jpy"} \ DOMAIN r.body.obj.usd.obj # {}

\* a parsed answer that lacks xau, or usd in it
GoldFieldMissing(r) ==
    /\ Parsed(r)
    /\ \/ "xau" \notin DOMAIN r.body.obj
       \/ /\ IsObj(r.body.obj.xau)
          /\ "usd" \notin DOMAIN r.body.obj.xau.obj

IsMirrorRequest(q, base) == q.host = MirrorHost /\ q.url = MirrorUrl(LastDate, base)

IsShiftRequest(q) == q.host = PrimaryHost /\ q.url = PrimaryUrl(PrevDate(LastDate), "xau")

----------------------------------------------------------------------------
(* C1 *)

\* C1: in the rate fetch, whenever the primary attempt ends in a non-200
\* response or in a network/parse exception, exactly one attempt on the
\* mirror follows, and a 200 answer of the mirror is parsed under the same
\* rule as the primary's.
C1_MirrorAfterAnyPrimaryFailure ==
    (AfterRate /\ Failed(Answer(1))) =>
        /\ Len(lastHttp) = 2
        /\ IsMirrorRequest(lastHttp[2], "usd")
        /\ (Parsed(Answer(2)) /\ ~JsonGetRaises(Answer(2), "usd"))
              => LastRates = ParseRates(Answer(2))

\* the part of C1 the code implements: the mirror follows a non-200 primary
C1_MirrorAfterNon200 ==
    (AfterRate /\ ~Raises(Answer(1)) /\ Answer(1).status # 200) =>
        /\ Len(lastHttp) = 2
        /\ IsMirrorRequest(lastHttp[2], "usd")

----------------------------------------------------------------------------
(* C2 *)

\* C2: in the gold fetch an exception raised by the primary or by the mirror
\* attempt does not abort the later fallback steps: after a primary exception
\* the mirror and the date-shift attempts are still made, after a mirror
\* exception the date-shift attempt is still made.
C2_ExceptionKeepsFallbacks ==
    AfterGold =>
        /\ GoldAttempt(Answer(1)) = "raise" =>
              /\ Len(lastHttp) = 3
              /\ IsMirrorRequest(lastHttp[2], "xau")
              /\ IsShiftRequest(lastHttp[3])
        /\ (Len(lastHttp) >= 2 /\ GoldAttempt(Answer(2)) = "raise") =>
              /\ Len(lastHttp) = 3
              /\ IsShiftRequest(lastHttp[3])

----------------------------------------------------------------------------
(* C4 *)

\* C4: for every requested date, day-of-month 1 included, the quote the gold
\* fetch returns carries a note only if the returned price was obtained for a
\* date different from the requested date.
C4_NoteOnlyForOtherDate ==
    (AfterGold /\ "note" \in DOMAIN LastGold) =>
        Strptime(PrevDate(LastDate)) # Strptime(LastDate)

----------------------------------------------------------------------------
(* C7 *)

IsPositiveNumber(v) == IsNum(v) /\ v.num > 0

\* C7: for every response of the two rate endpoints the rate fetch returns
\* exactly the keys EUR, GBP, JPY, each value a positive number or the
\* unavailable sentinel.
C7_RatesPositiveOrUnavailable ==
    AfterRate =>
        /\ DOMAIN LastRates = {"EUR", "GBP", "JPY"}
        /\ \A k \in DOMAIN LastRates : LastRates[k] = NA \/ IsPositiveNumber(LastRates[k])

\* the part of C7 the code implements: the three keys
C7_RateKeys == AfterRate => DOMAIN LastRates = {"EUR", "GBP", "JPY"}

----------------------------------------------------------------------------
(* C3 *)

\* C3 as stated: a 200 answer that lacks the expected nested field is
\* treated like an unavailable source; in the rate fetch a primary answer
\* missing usd or one of eur/gbp/jpy triggers the mirror attempt, in the gold
\* fetch an answer missing xau.usd triggers the next source of the chain.
C3_MissingFieldLikeUnavailable ==
    /\ (AfterRate /\ RateFieldMissing(Answer(1))) =>
          /\ Len(lastHttp) = 2
          /\ IsMirrorRequest(lastHttp[2], "usd")
    /\ AfterGold =>
          /\ GoldFieldMissing(Answer(1)) =>
                Len(lastHttp) >= 2 /\ IsMirrorRequest(lastHttp[2], "xau")
          /\ (Len(lastHttp) >= 2 /\ GoldFieldMissing(Answer(2))) =>
                Len(lastHttp) = 3 /\ IsShiftRequest(lastHttp[3])

\* C3 amended: the gold fetch treats an answer missing xau.usd like an
\* unavailable source (the next source is requested, and after the last
\* source the all-unavailable quote is returned); the rate fetch does not:
\* a primary 200 answer missing usd or one of eur/gbp/jpy is returned at once,
\* each missing field as "N/A", and the mirror is not requested.
C3_MissingFieldFallback ==
    /\ (AfterRate /\ RateFieldMissing(Answer(1))) =>
          /\ Len(lastHttp) = 1
          /\ LET usd == JsonGet(Answer(1), "usd")
             IN  /\ "eur" \notin DOMAIN usd => LastRates.EUR = NA
                 /\ "gbp" \notin DOMAIN usd => LastRates.GBP = NA
                 /\ "jpy" \notin DOMAIN usd => LastRates.JPY = NA
    /\ AfterGold =>
          /\ GoldFieldMissing(Answer(1)) =>
                Len(lastHttp) >= 2 /\ IsMirrorRequest(lastHttp[2], "xau")
          /\ (Len(lastHttp) >= 2 /\ GoldFieldMissing(Answer(2))) =>
                Len(lastHttp) = 3 /\ IsShiftRequest(lastHttp[3])
          /\ (Len(lastHttp) = 3 /\ GoldFieldMissing(Answer(3))) =>
                LastGold = DefaultGold

\* the gold fetch went through all three sources, each answering 200 without
\* xau.usd
C3_Witness ==
    /\ AfterGold
    /\ Len(lastHttp) = 3
    /\ \A i \in 1..3 : GoldFieldMissing(Answer(i))

----------------------------------------------------------------------------
(* C5 *)

----------------------------------------------------------------------------
(* C6 *)

\* the report in which every fetched value is unavailable
UnavailableReport(date1, date2, now) ==
    << "Dates: " \o DateStr(date1) \o " -> " \o DateStr(date2),
       "  City, Country: Unknown, Unknown",
       "  Live Temperature: N/A C",
       "  Now: " \o NowStr(now),
       "  Date " \o DateStr(date1) \o "  | EUR: N/A  GBP: N/A  JPY: N/A",
       "  Date " \o DateStr(date2) \o "  | EUR: N/A  GBP: N/A  JPY: N/A",
       "  Change (%)   | EUR: N/A  GBP: N/A  JPY: N/A",
       "  Date " \o DateStr(date1) \o ": $N/A USD",
       "  Date " \o DateStr(date2) \o ": $N/A USD",
       "  Change (%): N/A" >>

\* C6: when every HTTP attempt of the run fails (non-200, exception or
\* timeout) the run goes on to the end and the compiled report shows "N/A"
\* for every rate of both dates, both gold prices and the temperature,
\* "Unknown" for city and country, and "N/A" for the four changes.
C6_TotalOutageReport ==
    outage =>
        /\ pc \in {"display", "END"} =>
              state.output = UnavailableReport(state.date1, state.date2, clock)
        /\ pc = "END" => console = <<state.output>>

\* a run in which every request failed has ended
C6_Witness == outage /\ pc = "END" /\ Len(trace) = 9 /\ console # << >>

----------------------------------------------------------------------------
(* C8 *)

Order == <<"get_date", "fetch_location", "fetch_weather", "fetch_exchange_1",
           "fetch_exchange_2", "fetch_gold_1", "fetch_gold_2", "compile", "display">>

\* C8: the steps of every run execute in one fixed order, each after its
\* predecessor has returned: the location is there before the weather node
\* starts, the four finance results are there before the compiler starts,
\* and the compiler has run before display.
C8_FixedOrder ==
    /\ trace = SubSeq(Order, 1, Len(trace))
    /\ pc = IF Len(trace) < Len(Order) THEN Order[Len(trace) + 1] ELSE "END"
    /\ pc = "fetch_weather" => "location" \in DOMAIN state
    /\ pc = "compile" =>
          {"exchange_rates1", "exchange_rates2", "gold_price1", "gold_price2"}
              \subseteq DOMAIN state
    /\ pc = "display" => Len(compiled) = 1
    /\ console # << >> => Len(compiled) = 1

\* a whole run has been executed
C8_Witness == pc = "END" /\ Len(trace) = 9 /\ console = <<state.output>>

----------------------------------------------------------------------------
(* C9 *)

WeatherRequests == {i \in DOMAIN lastHttp : lastHttp[i].host = WeatherHost}

\* C9: the weather fetch called with a location whose latitude or longitude
\* is absent returns temperature "N/A" and issues no HTTP request; a request
\* to the weather endpoint is made only when both coordinates are present.
C9_NoCoordinatesNoRequest ==
    /\ (Last = "fetch_weather"
          /\ (state.location.lat = Null \/ state.location.lon = Null)) =>
            state.weather = DefaultWeather /\ lastHttp = << >>
    /\ WeatherRequests # {} =>
          /\ Last = "fetch_weather"
          /\ state.location.lat # Null
          /\ state.location.lon # Null

\* the weather node ran on a location that has a latitude but no longitude
C9_Witness ==
    /\ Last = "fetch_weather"
    /\ state.location.lat # Null
    /\ state.location.lon = Null
    /\ state.weather = DefaultWeather

----------------------------------------------------------------------------
(* C10 *)

\* C10: in a run whose geolocation request fails (non-200 or exception) the
\* location is Unknown, Unknown, None, None to the end, no request to the
\* weather endpoint is ever made, and the report's weather is "N/A".
C10_GeolocationFailure ==
    geoFailed =>
        /\ state.location = DefaultLocation
        /\ WeatherRequests = {}
        /\ "weather" \in DOMAIN state => state.weather = DefaultWeather
        /\ pc \in {"display", "END"} =>
              /\ state.output[2] = "  City, Country: Unknown, Unknown"
              /\ state.output[3] = "  Live Temperature: N/A C"

\* a run whose geolocation request failed has ended, with data from the
\* finance sources
C10_Witness == geoFailed /\ pc = "END" /\ ~outage /\ console # << >>

----------------------------------------------------------------------------
(* C11 *)

\* the answer is a 200 whose JSON carries a price xau.usd other than "N/A"
GoldSuccess(r) ==
    /\ Parsed(r)
    /\ "xau" \in DOMAIN r.body.obj
    /\ IsObj(r.body.obj.xau)
    /\ "usd" \in DOMAIN r.body.obj.xau.obj
    /\ r.body.obj.xau.obj.usd # NA

\* the answer is a non-200, or a 200 whose JSON lacks the price
GoldUnavailable(r) == (~Raises(r) /\ r.status # 200) \/ GoldFieldMissing(r)

\* C11: when the primary and the mirror attempt for the requested date both
\* fail (non-200 or price missing) and the date-shift attempt answers 200
\* with a price, the quote has note "Nearest available date", currency "USD"
\* and a price that is not "N/A"; a quote obtained from the primary or the
\* mirror for the requested date has no note.
C11_NoteMarksDateShift ==
    AfterGold =>
        /\ (/\ Len(lastHttp) = 3
            /\ GoldUnavailable(Answer(1))
            /\ GoldUnavailable(Answer(2))
            /\ GoldSuccess(Answer(3))) =>
              /\ DOMAIN LastGold = {"price_per_ounce", "currency", "note"}
              /\ LastGold.note = Str("Nearest available date")
              /\ LastGold.currency = Str("USD")
              /\ LastGold.price_per_ounce = Answer(3).body.obj.xau.obj.usd
              /\ LastGold.price_per_ounce # NA
        /\ (Len(lastHttp) <= 2 /\ GoldSuccess(Answer(Len(lastHttp)))) =>
              /\ DOMAIN LastGold = {"price_per_ounce", "currency"}
              /\ LastGold.price_per_ounce = Answer(Len(lastHttp)).body.obj.xau.obj.usd

\* the date-shift attempt found a price after two unavailable sources
C11_Witness ==
    /\ AfterGold
    /\ Len(lastHttp) = 3
    /\ GoldUnavailable(Answer(1))
    /\ GoldFieldMissing(Answer(2))
    /\ GoldSuccess(Answer(3))
    /\ "note" \in DOMAIN LastGold

----------------------------------------------------------------------------
(* C12 *)

\* what the answer r of the mirror alone stands for: eur, gbp, jpy of its usd
\* object, "N/A" for each field that is not there
MirrorAlone(r) ==
    LET body == r.body
        readable == IsObj(body) /\ ("usd" \in DOMAIN body.obj => IsObj(body.obj.usd))
        usd == IF readable /\ "usd" \in DOMAIN body.obj THEN body.obj.usd.obj ELSE EmptyDict
    IN  [EUR |-> IF "eur" \in DOMAIN usd THEN usd.eur ELSE NA,
         GBP |-> IF "gbp" \in DOMAIN usd THEN usd.gbp ELSE NA,
         JPY |-> IF "jpy" \in DOMAIN usd THEN usd.jpy ELSE NA]

\* C12: in the rate fetch, if the primary returns non-200 and the mirror
\* returns 200, the returned rate set is what parsing the mirror's response
\* alone produces, whatever the primary's response carried.
C12_MirrorAloneDecides ==
    (/\ AfterRate
     /\ ~Raises(Answer(1))
     /\ Answer(1).status # 200
     /\ Len(lastHttp) = 2
     /\ ~Raises(Answer(2))
     /\ Answer(2).status = 200) => LastRates = MirrorAlone(Answer(2))

\* a non-200 primary that carried rates of its own, and a mirror that
\* answered 200 with other rates
C12_Witness ==
    /\ AfterRate
    /\ Len(lastHttp) = 2
    /\ Answer(1).status = 503
    /\ ~Raises(Answer(2))
    /\ Answer(2).status = 200
    /\ LastRates.EUR = Num(90)
    /\ Answer(1).body.obj.usd.obj.eur = Num(95)

----------------------------------------------------------------------------
(* C13 *)

\* C13: in the rate fetch, if both endpoints fail (each by non-200,
\* exception or timeout, in any combination) the result is exactly
\* {EUR: "N/A", GBP: "N/A", JPY: "N/A"}.
C13_BothFailAllUnavailable ==
    (AfterRate /\ \A i \in DOMAIN lastHttp : Failed(Answer(i))) =>
        LastRates = [EUR |-> NA, GBP |-> NA, JPY |-> NA]

\* the primary answered non-200 and the request to the mirror raised
C13_Witness ==
    /\ AfterRate
    /\ Len(lastHttp) = 2
    /\ Answer(1).status = 404
    /\ Raises(Answer(2))
    /\ LastRates.GBP = NA

----------------------------------------------------------------------------
(* C14 *)

\* C14: one call of the rate fetch makes at most two HTTP requests: the
\* primary first, then the mirror at most once and only if the primary
\* attempt did not return 200; no endpoint is requested twice.
C14_AtMostPrimaryThenMirror ==
    AfterRate =>
        /\ Len(lastHttp) \in 1..2
        /\ lastHttp[1].host = PrimaryHost
        /\ lastHttp[1].url = PrimaryUrl(LastDate, "usd")
        /\ Len(lastHttp) = 2 =>
              /\ lastHttp[2].host = MirrorHost
              /\ lastHttp[2].url = MirrorUrl(LastDate, "usd")
              /\ lastHttp[2].url # lastHttp[1].url
              /\ ~Raises(Answer(1))
              /\ Answer(1).status # 200

\* the rate fetch went on to the mirror
C14_Witness ==
    /\ AfterRate
    /\ Len(lastHttp) = 2
    /\ lastHttp[1].host = PrimaryHost
    /\ lastHttp[2].host = MirrorHost

----------------------------------------------------------------------------
(* C15 *)

\* C15: the gold fetch tries primary(date), mirror(date), primary(shifted
\* date) in this order and stops at the first success (a 200 with a price
\* other than "N/A"): no source is requested after a success, at most three
\* requests are made, and the all-unavailable quote is returned only if none
\* of the attempts made succeeded.
C15_GoldChain ==
    AfterGold =>
        /\ Len(lastHttp) \in 1..3
        /\ lastHttp[1].host = PrimaryHost /\ lastHttp[1].url = PrimaryUrl(LastDate, "xau")
        /\ Len(lastHttp) >= 2 => IsMirrorRequest(lastHttp[2], "xau")
        /\ Len(lastHttp) = 3 =>
              /\ lastHttp[3].host = PrimaryHost
              /\ \E d \in 1..31 :
                    lastHttp[3].url = PrimaryUrl(D(LastDate.y, LastDate.m, d, TRUE), "xau")
        /\ \A i \in 1..(Len(lastHttp) - 1) : ~GoldSuccess(Answer(i))
        /\ LastGold = [price_per_ounce |-> NA, currency |-> Str("USD")]
              <=> \A i \in DOMAIN lastHttp : ~GoldSuccess(Answer(i))

\* the mirror found the price the primary did not have, and the chain stopped
C15_Witness ==
    /\ AfterGold
    /\ Len(lastHttp) = 2
    /\ GoldFieldMissing(Answer(1))
    /\ GoldSuccess(Answer(2))
    /\ LastGold.price_per_ounce # NA

----------------------------------------------------------------------------
(* C16 *)

\* scalars that are the sentinel, null or not numeric, and scalars that
\* coerce to zero
Unusable == {NA, Null, Str("abc"), Obj(EmptyDict)}
Zeroes == {Num(0), Str("0")}

\* C16: pct returns the sentinel "N/A" whenever either input is the
\* sentinel, null or non-numeric, or when old coerces to exactly zero; in
\* particular pct(0, 50) and pct("N/A", 50) are both "N/A".
C16_UndefinedDeltaIsUnavailable ==
    \A i \in DOMAIN deltas :
        (deltas[i].old \in Unusable \/ deltas[i].new \in Unusable \/ deltas[i].old \in Zeroes)
            => deltas[i].result = "N/A"

\* pct was called with old = 0 and new = 50
C16_Witness ==
    \E i \in DOMAIN deltas :
        deltas[i].old = Num(0) /\ deltas[i].new = Num(50) /\ deltas[i].result = "N/A"

----------------------------------------------------------------------------
(* C17 *)

\* the text of h hundredths, h >= 0, with exactly two decimals
Hundredths(h) == ToString(h \div 100) \o "." \o Pad2(h % 100, TRUE)

\* text is the quotient n / d in percent, to the nearest hundredth, with
\* two decimals and a % suffix
IsPercentOf(text, n, d) ==
    LET num == Abs(n) * 10000
        den == Abs(d)
        sign == IF (n < 0) # (d < 0) /\ n # 0 THEN "-" ELSE ""
    IN  \E h \in {num \div den, num \div den + 1} :
            /\ 2 * Abs(num - h * den) <= den
            /\ text = sign \o Hundredths(h) \o "%"

\* the fixture of scenario A: EUR 0.90 and 0.95 (in hundredths), gold
\* 2000 and 2100
ScenarioA ==
    /\ Len(state.output) = 10
    /\ Get(Get(state, "exchange_rates1", EmptyDict), "EUR", Null) = Num(90)
    /\ Get(Get(state, "exchange_rates2", EmptyDict), "EUR", Null) = Num(95)
    /\ Get(Get(state, "gold_price1", EmptyDict), "price_per_ounce", Null) = Num(2000)
    /\ Get(Get(state, "gold_price2", EmptyDict), "price_per_ounce", Null) = Num(2100)

\* C17: for numeric inputs with old # 0, pct returns (new - old) / old * 100
\* rounded to two decimals with a % suffix; pct(100, 110) = "10.00%"; in a
\* run that fetched EUR 0.90 and 0.95 and gold 2000 and 2100 the report's
\* EUR change is "5.56%" and its gold change is "5.00%".
C17_PercentChange ==
    /\ \A i \in DOMAIN deltas :
          LET old == deltas[i].old
              new == deltas[i].new
          IN  /\ (IsNum(old) /\ IsNum(new) /\ old # Num(0))
                    => IsPercentOf(deltas[i].result, new.num - old.num, old.num)
              /\ (old = Num(100) /\ new = Num(110)) => deltas[i].result = "10.00%"
    /\ ScenarioA =>
          /\ \E gbp, jpy \in {deltas[i].result : i \in DOMAIN deltas} :
                state.output[7] = "  Change (%)   | EUR: 5.56%  GBP: " \o gbp \o "  JPY: " \o jpy
          /\ state.output[10] = "  Change (%): 5.00%"

\* a run has ended whose report is the one of scenario A
C17_Witness ==
    /\ pc = "END"
    /\ ScenarioA
    /\ deltas[1] = [old |-> Num(90), new |-> Num(95), result |-> "5.56%"]
    /\ deltas[4] = [old |-> Num(2000), new |-> Num(2100), result |-> "5.00%"]

----------------------------------------------------------------------------
(* C18 *)

\* the gold fetch executed last went on to its third attempt
ThirdAttempt == AfterGold /\ Len(lastHttp) = 3

\* the primary gold URL of a day of the requested month, zero-padded
DayUrl(date, day) == PrimaryUrl(D(date.y, date.m, day, TRUE), "xau")

\* C18 (as stated): the third attempt requests the requested date with its
\* day decremented by one within the same month; on day 1 the shifted date
\* is the requested date itself, so the third attempt re-requests the URL of
\* the first attempt.
C18_ShiftReusesFirstUrl ==
    ThirdAttempt =>
        /\ lastHttp[3].host = PrimaryHost
        /\ LastDate.d > 1 => lastHttp[3].url = DayUrl(LastDate, LastDate.d - 1)
        /\ LastDate.d = 1 => lastHttp[3].url = lastHttp[1].url

\* the requested text is written with zero-padded month and day
ZeroPadded(date) == DateStr(date) = DateStr([date EXCEPT !.pad = TRUE])

\* C18 (amended): on day 1 the third attempt requests the same calendar
\* date, written zero-padded; its URL is the first attempt's only when the
\* requested text was zero-padded.
C18_ShiftKeepsMonth ==
    ThirdAttempt =>
        /\ lastHttp[3].host = PrimaryHost
        /\ LastDate.d > 1 => lastHttp[3].url = DayUrl(LastDate, LastDate.d - 1)
        /\ LastDate.d = 1 =>
              /\ lastHttp[3].url = DayUrl(LastDate, 1)
              /\ ZeroPadded(LastDate) => lastHttp[3].url = lastHttp[1].url

\* a third attempt for "2024-3-1" went to another URL than the first
C18_Witness ==
    /\ ThirdAttempt
    /\ LastDate = D(2024, 3, 1, FALSE)
    /\ lastHttp[3].url = DayUrl(LastDate, 1)
    /\ lastHttp[3].url # lastHttp[1].url

----------------------------------------------------------------------------
(* C19 *)

\* the requests one execution of a node may issue
Budget ==
    [n \in Nodes |->
        CASE n = "fetch_location" -> 1
          [] n = "fetch_weather" -> 1
          [] n \in {"fetch_exchange_1", "fetch_exchange_2"} -> 2
          [] n \in {"fetch_gold_1", "fetch_gold_2"} -> 3
          [] OTHER -> 0]

RECURSIVE SumOver(_, _)
SumOver(f, S) ==
    IF S = {} THEN 0
    ELSE LET n == CHOOSE x \in S : TRUE IN f[n] + SumOver(f, S \ {n})

\* no node has run twice, a run that has ended has run all nine, and the
\* node executed last stayed within its budget of requests, the budgets of
\* the nine nodes adding up to 12
OnceAndWithinBudget ==
    /\ \A i, j \in DOMAIN trace : trace[i] = trace[j] => i = j
    /\ \A i \in DOMAIN trace : trace[i] \in Nodes
    /\ pc = "END" => {trace[i] : i \in DOMAIN trace} = Nodes /\ Cardinality(Nodes) = 9
    /\ trace # << >> => Len(lastHttp) <= Budget[Last]
    /\ SumOver(Budget, Nodes) = 12

\* C19: whatever the external sources answer, a run executes each of the
\* nine nodes exactly once and reaches END, having issued at most 12 HTTP
\* requests (1 geolocation, 1 weather, 2 per rate fetch, 3 per gold fetch).
C19_RunTerminates == []OnceAndWithinBudget /\ <>(pc = "END")

\* a run has ended after all nine nodes, not every request of it failing
C19_Witness ==
    /\ pc = "END"
    /\ {trace[i] : i \in DOMAIN trace} = Nodes
    /\ Len(trace) = Cardinality(Nodes)
    /\ ~outage

----------------------------------------------------------------------------
(* C20 *)

\* the channel a fetch node writes, and the currency file it asks for
Channel ==
    [fetch_exchange_1 |-> "exchange_rates1", fetch_exchange_2 |-> "exchange_rates2",
     fetch_gold_1 |-> "gold_price1", fetch_gold_2 |-> "gold_price2"]

Base == IF AfterRate THEN "usd" ELSE "xau"

\* the fetch executed last asked for its own date and wrote its own channel
\* from the last answer it got
KeyedByOwnDate ==
    (AfterRate \/ AfterGold) =>
        /\ lastHttp # << >>
        /\ lastHttp[1].url = PrimaryUrl(LastDate, Base)
        /\ Len(lastHttp) >= 2 => lastHttp[2].url = MirrorUrl(LastDate, Base)
        /\ Len(lastHttp) >= 3 => IsShiftRequest(lastHttp[3])
        /\ {k \in DOMAIN state : \E n \in DOMAIN Channel : Channel[n] = k}
              = {Channel[trace[i]] : i \in {j \in DOMAIN trace : trace[j] \in DOMAIN Channel}}
        /\ LET r == Answer(Len(lastHttp))
           IN  /\ (AfterRate /\ ~Raises(r) /\ r.status = 200) => LastRates = MirrorAlone(r)
               /\ (AfterGold /\ GoldSuccess(r)) =>
                     LastGold.price_per_ounce = r.body.obj.xau.obj.usd

\* the dates and the four results, once written, stay as they are
ResultsKept ==
    \A k \in DOMAIN state \ {"output"} : k \in DOMAIN state' /\ state'[k] = state[k]

\* the four changes of the report go from the date1 value to the date2
\* value of the same metric
ChangesFromDate1ToDate2 ==
    pc \in {"display", "END"} =>
        /\ Len(deltas) = 4
        /\ \A i \in 1..3 :
              LET cur == <<"EUR", "GBP", "JPY">>[i]
              IN  /\ deltas[i].old = state.exchange_rates1[cur]
                  /\ deltas[i].new = state.exchange_rates2[cur]
        /\ deltas[4].old = state.gold_price1.price_per_ounce
        /\ deltas[4].new = state.gold_price2.price_per_ounce
        /\ state.output[7] = "  Change (%)   | EUR: " \o deltas[1].result
                                 \o "  GBP: " \o deltas[2].result
                                 \o "  JPY: " \o deltas[3].result
        /\ state.output[10] = "  Change (%): " \o deltas[4].result

\* C20: the results are never cross-wired between the two dates:
\* exchange_rates1 and gold_price1 of the final state come from fetches
\* keyed by date1, exchange_rates2 and gold_price2 from fetches keyed by
\* date2, and each of the four changes of the report has the date1 value as
\* old and the date2 value of the same metric as new.
C20_NoCrossWiring ==
    /\ [](KeyedByOwnDate /\ ChangesFromDate1ToDate2)
    /\ [][ResultsKept]_vars

\* a run over two different dates has ended with different rates and
\* different gold prices for them
C20_Witness ==
    /\ pc = "END"
    /\ state.date1 # state.date2
    /\ state.exchange_rates1.EUR = Num(95)
    /\ state.exchange_rates2.EUR = Num(90)
    /\ state.gold_price1.price_per_ounce = Num(2100)
    /\ state.gold_price2.price_per_ounce = Num(2000)
    /\ deltas[1] = [old |-> Num(95), new |-> Num(90), result |-> "-5.26%"]
    /\ deltas[4] = [old |-> Num(2100), new |-> Num(2000), result |-> "-4.76%"]

====
